---- MODULE Spec2Model ----
(***************************************************************************)
(* GPS jamming monitoring dashboard (src/streamlit2.py).                   *)
(*                                                                         *)
(* The dashboard is a Streamlit script: every widget interaction runs the  *)
(* whole script top to bottom against the session state and the shared     *)
(* run folder.  One script run is one action of the model.                 *)
(*                                                                         *)
(*   Spec        the dashboard: one browser session whose script runs are  *)
(*               modelled in full, the wall clock, and the run folder,     *)
(*               which a second browser session also saves runs into.      *)
(*   SpecReduce  the latest-row-per-vessel reduction applied to every      *)
(*               small raw snapshot, fresh and reloaded from its csv.      *)
(*   SpecDiff    the new/resolved sets, the alerts and the stability value *)
(*               applied to every pair of small reduced states.            *)
(***************************************************************************)
EXTENDS Integers, Sequences, FiniteSets, TLC

VARIABLES
  clock,             \* datetime.now(), in seconds
  files,             \* the run folder: run file name -> csv rows
  df_current,        \* st.session_state.df_current: <<>> is None, <<df>> a frame
  run_loaded,        \* st.session_state.run_loaded
  current_run_name,  \* st.session_state.current_run_name: <<>> is None
  compare_prev,      \* the "Compare with previous run" toggle
  last_n_runs,       \* the "Number of runs to display in trend" slider
  view,              \* what the last script run of the session computed and showed
  nfetch,            \* number of fetch-and-save cycles completed so far
  probe              \* input and output of the function under SpecReduce / SpecDiff

vars == <<clock, files, df_current, run_loaded, current_run_name,
          compare_prev, last_n_runs, view, nfetch, probe>>

----------------------------------------------------------------------------
(* Bounds of the model *)

StartClock == 59    \* wall-clock second at which the session starts
MaxTicks == 1       \* seconds the clock advances under Spec
MaxFetches == 2     \* fetch-and-save cycles under Spec, all sessions together
MaxRuns == 3        \* run files in the folder under SpecWindow
MaxRows == 3        \* rows of a raw snapshot under SpecReduce
MaxVessel == 3      \* vessel ids 1..MaxVessel under SpecReduce and SpecDiff

(* Program constants *)

SliderMin == 2
SliderMax == 10
SliderDefault == 5
SurgeThreshold == 10

----------------------------------------------------------------------------
(* Values *)

\* A NULL opened_eez as pd.read_sql delivers it (None) and as pd.read_csv
\* delivers an empty field (NaN).  Neither is a str, and they are not equal.
NoneRegion == "<None>"
NaNRegion == "<NaN>"
IsStr(x) == x \notin {NoneRegion, NaNRegion}

Row(v, r, t) == [vesselid |-> v, eez_overall |-> r, timestamp |-> t]

Last(s) == s[Len(s)]

\* s < t for strings, given as sequences of characters (digits).
RECURSIVE LexLess(_, _)
LexLess(s, t) ==
  IF t = <<>> THEN FALSE
  ELSE IF s = <<>> THEN TRUE
  ELSE IF Head(s) # Head(t) THEN Head(s) < Head(t)
  ELSE LexLess(Tail(s), Tail(t))

\* A zero-padded two-digit field of strftime.
Pad2(n) == <<(n \div 10) % 10, n % 10>>

\* strftime with a fixed-width, second-precision format; the minute and
\* second fields are modelled, the fields above them being equal in the model.
Strftime(t) == Pad2(t \div 60) \o Pad2(t % 60)

\* datetime.strptime with the same format.
Strptime(s) == (s[1] * 10 + s[2]) * 60 + s[3] * 10 + s[4]

----------------------------------------------------------------------------
(* pandas operations the script uses *)

\* Order of two timestamp cells: datetime64 values when the frame was fetched,
\* str objects when it was read back with pd.read_csv (no parse_dates).
TsLeq(a, b, text) == IF text THEN ~LexLess(b, a) ELSE a <= b

\* Insert one row into a sorted frame behind every row that is not greater.
RECURSIVE InsertSorted(_, _, _)
InsertSorted(sorted, row, text) ==
  IF sorted = <<>> THEN <<row>>
  ELSE IF TsLeq(Last(sorted).timestamp, row.timestamp, text)
       THEN Append(sorted, row)
       ELSE Append(InsertSorted(SubSeq(sorted, 1, Len(sorted) - 1), row, text),
                   Last(sorted))

\* df.sort_values("timestamp"): ascending; equal keys keep their order.
RECURSIVE sort_values(_, _)
sort_values(df, text) ==
  IF df = <<>> THEN <<>>
  ELSE InsertSorted(sort_values(SubSeq(df, 1, Len(df) - 1), text), Last(df), text)

\* The rows of df at the positions in keep, in df's order.
RECURSIVE TakeRows(_, _, _)
TakeRows(df, keep, i) ==
  IF i > Len(df) THEN <<>>
  ELSE (IF i \in keep THEN <<df[i]>> ELSE <<>>) \o TakeRows(df, keep, i + 1)

\* groupby_tail taking head(1): the first row of every group.
groupby_head(df) ==
  TakeRows(df, {i \in 1..Len(df) :
                  \A j \in 1..(i - 1) : df[j].vesselid # df[i].vesselid}, 1)

\* df.groupby("vesselid", as_index=False).tail(1): the last row of every group.
groupby_tail(df) ==
  TakeRows(df, {i \in 1..Len(df) :
                  \A j \in (i + 1)..Len(df) : df[j].vesselid # df[i].vesselid}, 1)

\* df.drop_duplicates("vesselid"): the first row of every vessel.
drop_duplicates(df) ==
  TakeRows(df, {i \in 1..Len(df) :
                  \A j \in 1..(i - 1) : df[j].vesselid # df[i].vesselid}, 1)

\* df.to_csv(filename, index=False): a NULL region is written as an empty
\* field, a timestamp as fixed-width text.
to_csv(df) ==
  [i \in 1..Len(df) |->
     Row(df[i].vesselid,
         IF df[i].eez_overall = NoneRegion THEN "" ELSE df[i].eez_overall,
         Strftime(df[i].timestamp))]

\* pd.read_csv(f): an empty field is read as NaN, a timestamp stays text.
read_csv(csv) ==
  [i \in 1..Len(csv) |->
     Row(csv[i].vesselid,
         IF csv[i].eez_overall = "" THEN NaNRegion ELSE csv[i].eez_overall,
         csv[i].timestamp)]

\* set(df[column])
vessel_set(df) == {df[i].vesselid : i \in 1..Len(df)}
region_set(df) == {df[i].eez_overall : i \in 1..Len(df)}

\* The latest row per vessel of a frame (lines 118-123 and 127-132).
reduce_run(df, text) == groupby_tail(sort_values(df, text))

----------------------------------------------------------------------------
(* The run folder *)

\* The name save_run gives the file of a run saved at second now; the folder
\* and the run_ prefix and .csv suffix are the same for every run file.
run_file_name(now) == Strftime(now)

\* save_run(df): the folder after df.to_csv(filename) at second now.  to_csv
\* opens the file for writing, whether or not it exists.
save_run(disk, now, df) ==
  [f \in (DOMAIN disk) \cup {run_file_name(now)} |->
     IF f = run_file_name(now) THEN to_csv(df) ELSE disk[f]]

\* glob.glob(os.path.join(RUN_FOLDER, "run_*.csv")): the names of the run
\* files, in an order the file system chooses.
RECURSIVE glob(_)
glob(names) ==
  IF names = {} THEN <<>>
  ELSE LET some == CHOOSE x \in names : TRUE
       IN  <<some>> \o glob(names \ {some})

RECURSIVE InsertName(_, _)
InsertName(names, f) ==
  IF names = <<>> THEN <<f>>
  ELSE IF ~LexLess(f, Last(names)) THEN Append(names, f)
       ELSE Append(InsertName(SubSeq(names, 1, Len(names) - 1), f), Last(names))

\* sorted(listing): ascending string order.
RECURSIVE sorted(_)
sorted(listing) ==
  IF listing = <<>> THEN <<>>
  ELSE InsertName(sorted(SubSeq(listing, 1, Len(listing) - 1)), Last(listing))

\* run_files = sorted(glob.glob(...))
list_run_files(disk) == sorted(glob(DOMAIN disk))

\* The Python slice s[-n:] for n >= 0 (s[-0:] is s[0:], the whole list).
tail_slice(s, n) ==
  IF n = 0 \/ n >= Len(s) THEN s ELSE SubSeq(s, Len(s) - n + 1, Len(s))

Min(a, b) == IF a <= b THEN a ELSE b

----------------------------------------------------------------------------
(* Core logic: new / resolved events, alerts, stability *)

\* new_vessels_of with the operands of the difference exchanged.
new_vessels_swapped(current_vessels, previous_vessels) ==
  previous_vessels \ current_vessels

new_vessels_of(current_vessels, previous_vessels) ==
  current_vessels \ previous_vessels

new_regions_of(current_regions, previous_regions) ==
  current_regions \ previous_regions

resolved_regions_of(current_regions, previous_regions) ==
  previous_regions \ current_regions

\* ', '.join(regions) raises TypeError unless every item is a str.
join_raises(regions) == \E r \in regions : ~IsStr(r)

\* increase_pct > 10, with increase_pct = (cur - prev) / prev * 100
surge(ncur, nprev) == (ncur - nprev) * 100 > SurgeThreshold * nprev

\* smart_alerts without the "if not first_run" guard.
smart_alerts_unguarded(first_run, new_regions, resolved_regions, current_vessels, previous_vessels) ==
  [crashed |-> FALSE,
   alerts |-> (IF new_regions # {} THEN {"new_region"} ELSE {})
        \cup (IF resolved_regions # {} THEN {"region_resolved"} ELSE {})
        \cup (IF /\ previous_vessels # {}
                 /\ Cardinality(current_vessels) > Cardinality(previous_vessels)
                 /\ surge(Cardinality(current_vessels), Cardinality(previous_vessels))
              THEN {"vessel_surge"} ELSE {})]

\* Sidebar: Smart Alerts.  The alerts shown, and whether the script run ended
\* there with an exception.
smart_alerts(first_run, new_regions, resolved_regions, current_vessels, previous_vessels) ==
  IF first_run THEN [crashed |-> FALSE, alerts |-> {}]
  ELSE IF new_regions # {} /\ join_raises(new_regions)
       THEN [crashed |-> TRUE, alerts |-> {}]
  ELSE LET warned == IF new_regions # {} THEN {"new_region"} ELSE {} IN
       IF resolved_regions # {} /\ join_raises(resolved_regions)
       THEN [crashed |-> TRUE, alerts |-> warned]
       ELSE [crashed |-> FALSE,
             alerts |-> warned
               \cup (IF resolved_regions # {} THEN {"region_resolved"} ELSE {})
               \cup (IF /\ previous_vessels # {}
                        /\ Cardinality(current_vessels) > Cardinality(previous_vessels)
                        /\ surge(Cardinality(current_vessels),
                                 Cardinality(previous_vessels))
                     THEN {"vessel_surge"} ELSE {})]

\* stability_pct dividing by the number of current regions.
stability_over_current(current_regions, previous_regions) ==
  IF previous_regions # {}
  THEN [num |-> Cardinality(current_regions \cap previous_regions) * 100,
        den |-> Cardinality(current_regions)]
  ELSE [num |-> 100, den |-> 1]

\* stability_pct as the exact fraction num / den.
stability_pct(current_regions, previous_regions) ==
  IF previous_regions # {}
  THEN [num |-> Cardinality(current_regions \cap previous_regions) * 100,
        den |-> Cardinality(previous_regions)]
  ELSE [num |-> 100, den |-> 1]

\* Lines 141-162 and 246-250 for a current and a previous reduced state.
\* stability is <<>> when the metric is not computed.
compare_runs(current_run, previous_run, first_run) ==
  LET current_vessels == vessel_set(current_run)
      previous_vessels == vessel_set(previous_run)
      current_regions == region_set(current_run)
      previous_regions == region_set(previous_run)
      new_regions == new_regions_of(current_regions, previous_regions)
      resolved_regions == resolved_regions_of(current_regions, previous_regions)
      sidebar == smart_alerts(first_run, new_regions, resolved_regions,
                              current_vessels, previous_vessels)
  IN  [current_vessels |-> current_vessels,
       previous_vessels |-> previous_vessels,
       new_vessels |-> new_vessels_of(current_vessels, previous_vessels),
       current_regions |-> current_regions,
       previous_regions |-> previous_regions,
       new_regions |-> new_regions,
       resolved_regions |-> resolved_regions,
       alerts |-> sidebar.alerts,
       crashed |-> sidebar.crashed,
       stability |-> IF first_run \/ sidebar.crashed THEN <<>>
                     ELSE <<stability_pct(current_regions, previous_regions)>>]

----------------------------------------------------------------------------
(* Model consistency metrics and trend *)

RECURSIVE concat(_)
concat(frames) ==
  IF frames = <<>> THEN <<>> ELSE Head(frames) \o concat(Tail(frames))

\* The window of run files of the persistence chart: run_files[-last_n_runs:]
persistence_runs(run_files, n) == tail_slice(run_files, n)

\* persistence_of without drop_duplicates: every row counts.
persistence_of_rows(disk, run_files, n) ==
  LET window == persistence_runs(run_files, n)
      all_runs_df == concat([i \in 1..Len(window) |-> read_csv(disk[window[i]])])
  IN  [v \in vessel_set(all_runs_df) |->
         Cardinality({i \in 1..Len(all_runs_df) : all_runs_df[i].vesselid = v})]

\* Event persistence: rows per vessel over the de-duplicated runs of the window.
persistence_of(disk, run_files, n) ==
  LET window == persistence_runs(run_files, n)
      all_runs_df == concat([i \in 1..Len(window) |->
                               drop_duplicates(read_csv(disk[window[i]]))])
  IN  [v \in vessel_set(all_runs_df) |->
         Cardinality({i \in 1..Len(all_runs_df) : all_runs_df[i].vesselid = v})]

\* trend_runs = run_files[-min(last_n_runs, len(run_files)):]
trend_runs_of(run_files, n) == tail_slice(run_files, Min(n, Len(run_files)))

\* trend_point without drop_duplicates: every row counts.
trend_point_rows(disk, f) ==
  [run_time |-> Strptime(f), jammed_vessels |-> Len(read_csv(disk[f]))]

\* One trend point of a run file.
trend_point(disk, f) ==
  [run_time |-> Strptime(f),
   jammed_vessels |-> Len(drop_duplicates(read_csv(disk[f])))]

RECURSIVE InsertPoint(_, _)
InsertPoint(points, p) ==
  IF points = <<>> THEN <<p>>
  ELSE IF Last(points).run_time <= p.run_time THEN Append(points, p)
       ELSE Append(InsertPoint(SubSeq(points, 1, Len(points) - 1), p), Last(points))

\* trend_df.sort_values("run_time")
RECURSIVE sort_by_run_time(_)
sort_by_run_time(points) ==
  IF points = <<>> THEN <<>>
  ELSE InsertPoint(sort_by_run_time(SubSeq(points, 1, Len(points) - 1)), Last(points))

\* Multi-run trend.
trend_of(disk, run_files, n) ==
  LET trend_runs == trend_runs_of(run_files, n)
  IN  sort_by_run_time([i \in 1..Len(trend_runs) |-> trend_point(disk, trend_runs[i])])

----------------------------------------------------------------------------
(* One run of the script *)

\* The three metrics of "Key Metrics & New Events" (lines 169-171).
key_metrics(diff) ==
  [total |-> Cardinality(diff.current_vessels),
   new |-> Cardinality(diff.new_vessels),
   regions |-> Cardinality(diff.current_regions)]

\* What "Show New Jammed Vessels" shows when clicked.
show_new_vessels(clicked, first_run, new_vessels) ==
  IF ~clicked THEN ""
  ELSE IF first_run THEN "baseline"
  ELSE IF new_vessels = {} THEN "no_new"
  ELSE "table"

\* The table "Show Active Regions" shows when clicked: one row per region of
\* the current run (groupby drops a NULL region), marked new or active.
show_active_regions(clicked, current_run, new_regions) ==
  IF ~clicked THEN {}
  ELSE {[eez_overall |-> r,
         jammed_vessels |->
           Cardinality({current_run[i].vesselid :
                          i \in {j \in 1..Len(current_run) :
                                   current_run[j].eez_overall = r}}),
         status |-> IF r \in new_regions THEN "New" ELSE "Active"] :
        r \in {x \in region_set(current_run) : IsStr(x)}}

\* The view of a script run that st.stop() ended at line 112.
Stopped ==
  [rendered |-> FALSE, run_files |-> <<>>,
   current_run |-> <<>>, previous_run |-> <<>>, first_run |-> FALSE,
   diff |-> compare_runs(<<>>, <<>>, TRUE),
   kpi |-> <<>>, show_new |-> "", show_regions |-> {},
   persistence |-> <<>>, trend |-> <<>>]

\* first_run, lines 125-136
first_run_of(run_files, compare) == ~(Len(run_files) > 1 /\ compare)

\* The file previous_run is read from: run_files[-2]
previous_file(run_files) == run_files[Len(run_files) - 1]

\* Lines 117-296 for the folder as the run finds it and the session's frame.
render(disk, df, compare, n, click_new, click_regions) ==
  LET run_files == list_run_files(disk)
      current_run == reduce_run(df, FALSE)
      first_run == first_run_of(run_files, compare)
      previous_run == IF first_run THEN <<>>
                      ELSE reduce_run(read_csv(disk[previous_file(run_files)]), TRUE)
      diff == compare_runs(current_run, previous_run, first_run)
      done == ~diff.crashed
  IN  [rendered |-> TRUE, run_files |-> run_files,
       current_run |-> current_run, previous_run |-> previous_run,
       first_run |-> first_run, diff |-> diff,
       kpi |-> IF done THEN <<key_metrics(diff)>> ELSE <<>>,
       show_new |-> IF done THEN show_new_vessels(click_new, first_run, diff.new_vessels)
                    ELSE "",
       show_regions |-> IF done
                        THEN show_active_regions(click_regions, current_run,
                                                 diff.new_regions)
                        ELSE {},
       persistence |-> IF done THEN persistence_of(disk, run_files, n) ELSE <<>>,
       trend |-> IF done THEN trend_of(disk, run_files, n) ELSE <<>>]

\* A run of the whole script: the fetch button, the toggle and slider values
\* and the two show buttons as the browser sends them, fetched being the
\* table the warehouse query returns.
script_run(fetch_data, compare, n, click_new, click_regions, fetched) ==
  LET disk == IF fetch_data THEN save_run(files, clock, fetched) ELSE files
      df == IF fetch_data THEN <<fetched>> ELSE df_current
      loaded == fetch_data \/ run_loaded
  IN  /\ files' = disk
      /\ df_current' = df
      /\ current_run_name' = IF fetch_data THEN run_file_name(clock)
                             ELSE current_run_name
      /\ run_loaded' = loaded
      /\ nfetch' = IF fetch_data THEN nfetch + 1 ELSE nfetch
      /\ compare_prev' = compare
      /\ last_n_runs' = n
      /\ view' = IF loaded
                 THEN render(disk, df[1], compare, n, click_new, click_regions)
                 ELSE Stopped
      /\ UNCHANGED <<clock, probe>>

----------------------------------------------------------------------------
(* The dashboard *)

EEZ_A == "EEZ_A"
EEZ_B == "EEZ_B"

\* Tables the warehouse query returns in the model: an empty table, two
\* vessels in one region, a table with two events of vessel 1 and a new
\* region, and a table with a vessel outside every EEZ.
QueryResults ==
  { <<>>,
    <<Row(1, EEZ_A, StartClock), Row(2, EEZ_A, StartClock)>>,
    <<Row(1, EEZ_B, StartClock + 1), Row(1, EEZ_A, StartClock),
      Row(3, EEZ_A, StartClock + 1), Row(4, EEZ_B, StartClock)>>,
    <<Row(1, EEZ_A, StartClock + 1), Row(2, NoneRegion, StartClock + 1),
      Row(3, EEZ_A, StartClock)>> }

\* The slider positions tried.
SliderChoices == {n \in SliderMin..SliderMax : n <= SliderMin + 1 \/ n = SliderDefault}

NoProbe == [stage |-> "none"]

\* The run folder as os.makedirs leaves it on a first start.
NoFiles == [f \in {} |-> <<>>]

\* The session state, the widgets and the page before any interaction: the
\* first script run stops at line 112.
FreshSession ==
  /\ df_current = <<>>
  /\ run_loaded = FALSE
  /\ current_run_name = <<>>
  /\ compare_prev = TRUE
  /\ last_n_runs = SliderDefault
  /\ view = Stopped
  /\ nfetch = 0

Init ==
  /\ clock = StartClock
  /\ files = NoFiles
  /\ FreshSession
  /\ probe = NoProbe

\* The clock moves on by a second.
Tick ==
  /\ clock < StartClock + MaxTicks
  /\ clock' = clock + 1
  /\ UNCHANGED <<files, df_current, run_loaded, current_run_name,
                 compare_prev, last_n_runs, view, nfetch, probe>>

\* "Fetch Latest Redshift Data" is clicked.
ClickFetch ==
  /\ nfetch < MaxFetches
  /\ \E fetched \in QueryResults :
       script_run(TRUE, compare_prev, last_n_runs, FALSE, FALSE, fetched)

\* The toggle is flipped.
ToggleCompare ==
  script_run(FALSE, ~compare_prev, last_n_runs, FALSE, FALSE, <<>>)

\* The slider is moved.
MoveSlider ==
  \E n \in SliderChoices \ {last_n_runs} :
    script_run(FALSE, compare_prev, n, FALSE, FALSE, <<>>)

\* "Show New Jammed Vessels" is clicked.
ClickShowNew ==
  script_run(FALSE, compare_prev, last_n_runs, TRUE, FALSE, <<>>)

\* "Show Active Regions" is clicked.
ClickShowRegions ==
  script_run(FALSE, compare_prev, last_n_runs, FALSE, TRUE, <<>>)

\* Another browser session clicks its fetch button: its script run saves a
\* run file into the shared folder; its session state is its own.
OtherSessionFetch ==
  /\ nfetch < MaxFetches
  /\ \E fetched \in QueryResults : files' = save_run(files, clock, fetched)
  /\ nfetch' = nfetch + 1
  /\ UNCHANGED <<clock, df_current, run_loaded, current_run_name,
                 compare_prev, last_n_runs, view, probe>>

Next ==
  \/ Tick
  \/ ClickFetch
  \/ ToggleCompare
  \/ MoveSlider
  \/ ClickShowNew
  \/ ClickShowRegions
  \/ OtherSessionFetch

Spec == Init /\ [][Next]_vars

----------------------------------------------------------------------------
(* SpecReduce: the reduction of every small raw snapshot *)

RawVessels == {1, 2}
RawRegions == {EEZ_A, EEZ_B}
RawTimes == {StartClock, StartClock + 1}
RawRows == {Row(v, r, t) : v \in RawVessels, r \in RawRegions, t \in RawTimes}

Frames(rows, maxlen) == UNION {[1..n -> rows] : n \in 0..maxlen}

Idle == /\ clock = StartClock /\ files = NoFiles /\ FreshSession

InitReduce ==
  /\ Idle
  /\ \E raw \in Frames(RawRows, MaxRows) :
       probe = [stage |-> "raw", raw |-> raw, out |-> <<>>]

\* current_run of a fetched snapshot (lines 118-123).
ReduceCurrent ==
  /\ probe.stage = "raw"
  /\ probe' = [probe EXCEPT !.stage = "current",
                            !.out = reduce_run(probe.raw, FALSE)]
  /\ UNCHANGED <<clock, files, df_current, run_loaded, current_run_name,
                 compare_prev, last_n_runs, view, nfetch>>

\* previous_run of the same snapshot saved by save_run and read back
\* (lines 126-132).
ReducePrevious ==
  /\ probe.stage = "raw"
  /\ probe' = [probe EXCEPT !.stage = "previous",
                            !.out = reduce_run(read_csv(to_csv(probe.raw)), TRUE)]
  /\ UNCHANGED <<clock, files, df_current, run_loaded, current_run_name,
                 compare_prev, last_n_runs, view, nfetch>>

NextReduce == ReduceCurrent \/ ReducePrevious

SpecReduce == InitReduce /\ [][NextReduce]_vars

----------------------------------------------------------------------------
(* SpecDiff: the comparison of every pair of small snapshots *)

DiffRegions == {EEZ_A, EEZ_B, NoneRegion}

\* The vessels of ids in ascending order, each with one event.
RECURSIVE OneRowEach(_, _)
OneRowEach(ids, region) ==
  IF ids = {} THEN <<>>
  ELSE LET v == CHOOSE x \in ids : \A y \in ids : x <= y
       IN  <<Row(v, region[v], StartClock)>> \o OneRowEach(ids \ {v}, region)

\* Snapshots of at most MaxVessel vessels, one event per vessel.
SmallSnapshots ==
  {OneRowEach(ids, region) :
     ids \in SUBSET (1..MaxVessel), region \in [1..MaxVessel -> DiffRegions]}

InitDiff ==
  /\ Idle
  /\ \E cur \in SmallSnapshots, prev \in SmallSnapshots, first \in BOOLEAN :
       /\ first => prev = <<>>
       /\ probe = [stage |-> "runs", df_current |-> cur, previous_saved |-> prev,
                   first_run |-> first,
                   out |-> compare_runs(<<>>, <<>>, TRUE)]

\* Lines 118-162 and 246-250 for the fetched snapshot and the saved one.
DiffRuns ==
  /\ probe.stage = "runs"
  /\ probe' = [probe EXCEPT
       !.stage = "diffed",
       !.out = compare_runs(
                 reduce_run(probe.df_current, FALSE),
                 IF probe.first_run THEN <<>>
                 ELSE reduce_run(read_csv(to_csv(probe.previous_saved)), TRUE),
                 probe.first_run)]
  /\ UNCHANGED <<clock, files, df_current, run_loaded, current_run_name,
                 compare_prev, last_n_runs, view, nfetch>>

NextDiff == DiffRuns

SpecDiff == InitDiff /\ [][NextDiff]_vars

----------------------------------------------------------------------------
(* SpecWindow: persistence and trend over every small run folder *)

RunNames == {run_file_name(StartClock + k) : k \in 0..(MaxRuns - 1)}

SavedTables == {to_csv(q) : q \in QueryResults}

Folders == UNION {[names -> SavedTables] : names \in (SUBSET RunNames) \ {{}}}

\* The orders in which the file system may list the files.
Listings(names) ==
  {l \in [1..Cardinality(names) -> names] :
     \A i, j \in 1..Cardinality(names) : i # j => l[i] # l[j]}

InitWindow ==
  /\ Idle
  /\ \E disk \in Folders, n \in SliderChoices :
       \E listing \in Listings(DOMAIN disk) :
         probe = [stage |-> "folder", disk |-> disk, listing |-> listing,
                  last_n_runs |-> n, persistence |-> <<>>, trend |-> <<>>]

\* Event persistence (lines 253-254).
BuildPersistence ==
  /\ probe.stage = "folder"
  /\ probe' = [probe EXCEPT
       !.stage = "persistence",
       !.persistence = persistence_of(probe.disk, sorted(probe.listing),
                                      probe.last_n_runs)]
  /\ UNCHANGED <<clock, files, df_current, run_loaded, current_run_name,
                 compare_prev, last_n_runs, view, nfetch>>

\* Multi-run trend (lines 278-294).
BuildTrend ==
  /\ probe.stage = "folder"
  /\ probe' = [probe EXCEPT
       !.stage = "trend",
       !.trend = trend_of(probe.disk, sorted(probe.listing), probe.last_n_runs)]
  /\ UNCHANGED <<clock, files, df_current, run_loaded, current_run_name,
                 compare_prev, last_n_runs, view, nfetch>>

NextWindow == BuildPersistence \/ BuildTrend

SpecWindow == InitWindow /\ [][NextWindow]_vars

----------------------------------------------------------------------------
(* Properties of the reduction (SpecReduce) *)

RawIds == {probe.raw[i].vesselid : i \in 1..Len(probe.raw)}

\* The latest event time of vessel v in the raw snapshot.
LatestTime(v) ==
  CHOOSE t \in {probe.raw[i].timestamp :
                  i \in {j \in 1..Len(probe.raw) : probe.raw[j].vesselid = v}} :
    \A i \in 1..Len(probe.raw) :
      probe.raw[i].vesselid = v => probe.raw[i].timestamp <= t

\* C1: the reduced state of a raw snapshot, whether the snapshot was just
\* fetched or was reloaded from its run file, has exactly one row for every
\* vessel id of the snapshot and no other row, the row of a vessel carries the
\* latest timestamp of that vessel's events, and an empty snapshot reduces to
\* an empty state.
ReductionKeepsLatest ==
  probe.stage \in {"current", "previous"} =>
    /\ {probe.out[i].vesselid : i \in 1..Len(probe.out)} = RawIds
    /\ Len(probe.out) = Cardinality(RawIds)
    /\ \A i \in 1..Len(probe.out) :
         probe.out[i].timestamp =
           IF probe.stage = "current" THEN LatestTime(probe.out[i].vesselid)
           ELSE Strftime(LatestTime(probe.out[i].vesselid))
    /\ (Len(probe.raw) = 0 => Len(probe.out) = 0)

\* A reloaded snapshot of two vessels whose first vessel has two events, the
\* later one listed first, has been reduced.
ReductionWitness ==
  /\ probe.stage = "previous"
  /\ Len(probe.raw) = 3
  /\ Cardinality(RawIds) = 2
  /\ probe.raw[1].vesselid = probe.raw[2].vesselid
  /\ probe.raw[1].timestamp > probe.raw[2].timestamp
  /\ Len(probe.out) = 2

----------------------------------------------------------------------------
(* Properties of the comparison (SpecDiff) *)

CurIds == {probe.df_current[i].vesselid : i \in 1..Len(probe.df_current)}

PrevIds ==
  IF probe.first_run THEN {}
  ELSE {probe.previous_saved[i].vesselid : i \in 1..Len(probe.previous_saved)}

CurRegions == {probe.df_current[i].eez_overall : i \in 1..Len(probe.df_current)}

\* The regions of the saved snapshot as they come back from the run file.
PrevRegions ==
  IF probe.first_run THEN {}
  ELSE {IF probe.previous_saved[i].eez_overall = NoneRegion THEN NaNRegion
        ELSE probe.previous_saved[i].eez_overall :
          i \in 1..Len(probe.previous_saved)}

\* C4: new_vessels is the vessel ids of the current state minus those of the
\* previous state, so it holds no vessel of the previous state and is empty
\* when a snapshot is compared with itself; new_regions and resolved_regions
\* are the two differences of the region sets, and are disjoint.
DiffIsSetDifference ==
  probe.stage = "diffed" =>
    /\ probe.out.new_vessels = CurIds \ PrevIds
    /\ probe.out.new_vessels \cap PrevIds = {}
    /\ (~probe.first_run /\ probe.df_current = probe.previous_saved
          => probe.out.new_vessels = {})
    /\ probe.out.new_regions = CurRegions \ PrevRegions
    /\ probe.out.resolved_regions = PrevRegions \ CurRegions
    /\ probe.out.new_regions \cap probe.out.resolved_regions = {}

\* Two runs have been compared that share a vessel and differ in vessels and
\* in regions both ways.
DiffWitness ==
  /\ probe.stage = "diffed"
  /\ ~probe.first_run
  /\ probe.out.new_vessels # {}
  /\ CurIds \cap PrevIds # {}
  /\ probe.out.new_regions # {}
  /\ probe.out.resolved_regions # {}

\* C6: whenever the stability value is computed it is
\* |current regions /\ previous regions| / |previous regions| * 100, lies
\* between 0 and 100, is 100 when the previous state has no regions, and is
\* 100 when a non-empty snapshot is compared with itself.
StabilityValue ==
  probe.stage = "diffed" /\ probe.out.stability # <<>> =>
    LET s == probe.out.stability[1] IN
    /\ s.den > 0
    /\ 0 <= s.num /\ s.num <= 100 * s.den
    /\ PrevRegions # {} =>
         s.num * Cardinality(PrevRegions)
           = 100 * Cardinality(CurRegions \cap PrevRegions) * s.den
    /\ PrevRegions = {} => s.num = 100 * s.den
    /\ (probe.df_current = probe.previous_saved /\ Len(probe.df_current) > 0
          => s.num = 100 * s.den)

\* A stability value strictly between 0 and 100 has been computed.
StabilityWitness ==
  /\ probe.stage = "diffed"
  /\ probe.out.stability # <<>>
  /\ 0 < probe.out.stability[1].num
  /\ probe.out.stability[1].num < 100 * probe.out.stability[1].den

----------------------------------------------------------------------------
(* Properties of persistence and trend (SpecWindow) *)

\* W = min(last_n_runs, number of run files)
WindowSize == Min(probe.last_n_runs, Cardinality(DOMAIN probe.disk))

\* The W most recent run files.
WindowFiles ==
  {f \in DOMAIN probe.disk :
     Cardinality({g \in DOMAIN probe.disk : Strptime(g) > Strptime(f)}) < WindowSize}

VesselsIn(f) == {probe.disk[f][i].vesselid : i \in 1..Len(probe.disk[f])}

HasDuplicates(f) == Len(probe.disk[f]) > Cardinality(VesselsIn(f))

\* C7: the persistence count of every vessel that appears in a run of the
\* window of the last W run files is the number of runs of the window that
\* contain it, hence between 1 and W; several rows of a vessel in one run
\* count once; no other vessel has a count.
PersistenceCounts ==
  probe.stage = "persistence" =>
    /\ DOMAIN probe.persistence = UNION {VesselsIn(f) : f \in WindowFiles}
    /\ \A v \in DOMAIN probe.persistence :
         /\ probe.persistence[v] = Cardinality({f \in WindowFiles : v \in VesselsIn(f)})
         /\ probe.persistence[v] \in 1..WindowSize

\* A window of three runs, one with two rows of a vessel, where a vessel is
\* in the first and the third run only and has count 2.
PersistenceWitness ==
  /\ probe.stage = "persistence"
  /\ WindowSize = 3
  /\ \E f \in WindowFiles : HasDuplicates(f)
  /\ \E v \in DOMAIN probe.persistence :
       /\ probe.persistence[v] = 2
       /\ \E f \in WindowFiles :
            /\ v \notin VesselsIn(f)
            /\ \E g, h \in WindowFiles : Strptime(g) < Strptime(f) /\ Strptime(f) < Strptime(h)

\* C8: the trend has one point per run file of the W most recent, the count
\* of a point is the number of distinct vessels of its run, and the points
\* ascend by run time in whatever order the files were listed.
TrendSeries ==
  probe.stage = "trend" =>
    /\ Len(probe.trend) = WindowSize
    /\ {probe.trend[i].run_time : i \in 1..Len(probe.trend)}
         = {Strptime(f) : f \in WindowFiles}
    /\ \A i \in 1..Len(probe.trend) : \A f \in WindowFiles :
         Strptime(f) = probe.trend[i].run_time
           => probe.trend[i].jammed_vessels = Cardinality(VesselsIn(f))
    /\ \A i, j \in 1..Len(probe.trend) :
         i < j => probe.trend[i].run_time < probe.trend[j].run_time

\* A trend of the two most recent of three run files, listed latest first,
\* one of the two holding two rows of a vessel.
TrendWitness ==
  /\ probe.stage = "trend"
  /\ Cardinality(DOMAIN probe.disk) = 3
  /\ Len(probe.trend) = 2
  /\ LexLess(probe.listing[2], probe.listing[1])
  /\ \E f \in WindowFiles : HasDuplicates(f)

----------------------------------------------------------------------------
(* Properties of the dashboard (Spec) *)

\* C2: a fetch made while the run folder is empty gives first_run, and a
\* script run with first_run shows no alert of any kind and answers "Show New
\* Jammed Vessels" with the baseline note, never with a table of new vessels,
\* although new_vessels and new_regions hold every current vessel and region.
FirstRunIsSilent ==
  [][ /\ (ClickFetch /\ DOMAIN files = {}) => view'.first_run
      /\ (view'.rendered /\ view'.first_run) =>
           /\ view'.diff.alerts = {}
           /\ view'.show_new \in {"", "baseline"}
           /\ view'.diff.new_vessels = view'.diff.current_vessels
           /\ view'.diff.new_regions = view'.diff.current_regions ]_vars

\* The only run so far is shown, its vessels and regions all count as new,
\* and "Show New Jammed Vessels" has been clicked.
FirstRunWitness ==
  /\ view.rendered
  /\ view.first_run
  /\ nfetch = 1
  /\ Len(view.run_files) = 1
  /\ view.diff.new_vessels # {}
  /\ view.diff.new_regions # {}
  /\ view.show_new = "baseline"

\* C3: a save leaves every run file that exists as it is and adds one run
\* file to the folder.
RunFilesAreKept ==
  [][ /\ \A f \in DOMAIN files : f \in DOMAIN files' /\ files'[f] = files[f]
      /\ nfetch' = nfetch + 1 =>
           Cardinality(DOMAIN files') = Cardinality(DOMAIN files) + 1 ]_vars

\* C5: the surge alert is shown exactly when the run is not a first run, the
\* previous run has vessels, and the growth of the vessel count is more than
\* 10 percent of the previous count.
SurgeAlertExactly ==
  view.rendered =>
    ( "vessel_surge" \in view.diff.alerts
      <=> /\ ~view.first_run
          /\ Cardinality(view.diff.previous_vessels) > 0
          /\ (Cardinality(view.diff.current_vessels)
                - Cardinality(view.diff.previous_vessels)) * 100
               > SurgeThreshold * Cardinality(view.diff.previous_vessels) )

\* C9: the first fetch into an empty run folder is a first run, and every
\* fetch after a run has been captured, comparison being switched on, is not.
FetchLifecycle ==
  [][ ClickFetch =>
        /\ DOMAIN files = {} => view'.first_run
        /\ (nfetch >= 1 /\ compare_prev) => ~view'.first_run ]_vars

\* C10: whenever a script run compares with a previous run, the session's
\* current run is the latest run file and the previous run is read from
\* another, earlier run file.
CurrentIsLatestRun ==
  (view.rendered /\ ~view.first_run) =>
    /\ Last(view.run_files) = current_run_name
    /\ previous_file(view.run_files) # current_run_name

====
